---- MODULE Spec2Model ----
(***************************************************************************)
(* Model of constraint/pkg/client/rego_helpers.go: ensureRegoConformance   *)
(* (package rewrite + data access check), requireRules / getRuleArity and  *)
(* the Errors aggregate.                                                   *)
(*                                                                         *)
(* Go strings are TLA+ strings.  A Rego source text is a record            *)
(*   [form, pkg, imports, rules]                                           *)
(* form "empty" is "", "blank" is whitespace only, "garbage" is text the   *)
(* parser rejects, "module" is a package declaration followed by imports   *)
(* and rules; pkg is the reference written after the package keyword     *)
(* (head segment first), without the root document.                        *)
(* An AST term is [type, name, sub]; a Ref is a sequence of terms whose    *)
(* first element is the head variable, as ast.Ref is a []*ast.Term.        *)
(* Error texts are those of the code, written without their backquotes.   *)
(***************************************************************************)
EXTENDS Integers, Sequences, FiniteSets, TLC

VARIABLES
    op,        \* the entry point called: "ensure" or "require"
    pc,        \* position of the call
    rego,      \* argument: the source text
    path,      \* argument of ensureRegoConformance: the package path, as characters
    reqs,      \* argument of requireRules: rule name -> required arity
    module,    \* the parsed module
    todo,      \* the references ast.Walk has still to reach, next first
    visited,   \* the references the callback was called with, in order
    errs,      \* the local errs of checkDataAccess / requireRules
    arities,   \* the local arities of requireRules
    idx,       \* index of the next rule of the loop at line 113
    pending,   \* the keys of reqs the loop at line 123 has not yet reached
    inferred,  \* what getRuleArity returned for each rule indexed so far
    result,    \* what the call returned
    parsed,    \* whether the source text was handed to ast.ParseModule
    pass,      \* 1 for the first call, 2 for the call on the first call's output
    out1,      \* the output of the first call
    text       \* Errors.Error() of the returned aggregate

vars == <<op, pc, rego, path, reqs, module, todo, visited, errs,
          arities, idx, pending, inferred, result, parsed, pass, out1, text>>

----------------------------------------------------------------------------
(* Bounds of the explored inputs *)

MaxRefs == 2

MaxPathLen == 2

MaxImports == 1

MaxRules == 2

MaxArity == 4

MaxWant == 2

----------------------------------------------------------------------------
(* AST terms *)

VarTerm(n) == [type |-> "var", name |-> n, sub |-> <<>>]

StringTerm(s) == [type |-> "string", name |-> s, sub |-> <<>>]

NumberTerm(s) == [type |-> "number", name |-> s, sub |-> <<>>]

ObjectTerm == [type |-> "object", name |-> "", sub |-> <<>>]

ArrayTerm(elems) == [type |-> "array", name |-> "", sub |-> elems]

RefTerm(r) == [type |-> "ref", name |-> "", sub |-> r]

NilTerm == [type |-> "nil", name |-> "", sub |-> <<>>]

DefaultRootRef == <<VarTerm("data")>>

\* Ref.HasPrefix
HasPrefix(r, other) ==
    /\ Len(r) >= Len(other)
    /\ \A i \in 1..Len(other) : r[i] = other[i]

RECURSIVE IsGround(_)
\* Term.IsGround; a Ref is ground when every term after its head is
IsGround(t) ==
    CASE t.type = "var" -> FALSE
      [] t.type \in {"ref", "array"} ->
            \A i \in (IF t.type = "ref" THEN 2 ELSE 1)..Len(t.sub) : IsGround(t.sub[i])
      [] OTHER -> TRUE

\* identifiers over the model's alphabet: any non-empty name
IsIdent(s) == s # ""

RECURSIVE TermString(_)
\* Term.String / Ref.String
TermString(t) ==
    LET RECURSIVE Tail2String(_, _)
        Tail2String(r, i) ==
            IF i > Len(r) THEN ""
            ELSE (IF r[i].type = "string" /\ IsIdent(r[i].name)
                  THEN "." \o r[i].name
                  ELSE "[" \o TermString(r[i]) \o "]") \o Tail2String(r, i + 1)
        RECURSIVE Elems2String(_, _)
        Elems2String(a, i) ==
            IF i > Len(a) THEN ""
            ELSE (IF i > 1 THEN ", " ELSE "") \o TermString(a[i]) \o Elems2String(a, i + 1)
    IN CASE t.type = "var" -> t.name
         [] t.type = "string" -> "\"" \o t.name \o "\""
         [] t.type = "number" -> t.name
         [] t.type = "object" -> "{}"
         [] t.type = "array" -> "[" \o Elems2String(t.sub, 1) \o "]"
         [] t.type = "ref" ->
               IF Len(t.sub) = 0 THEN "" ELSE t.sub[1].name \o Tail2String(t.sub, 2)
         [] OTHER -> ""

RefString(r) == TermString(RefTerm(r))

----------------------------------------------------------------------------
(* strings.Split and strings.Join *)

RECURSIVE SplitFrom(_, _, _, _)
SplitFrom(chars, sep, i, cur) ==
    IF i > Len(chars) THEN <<cur>>
    ELSE IF chars[i] = sep THEN <<cur>> \o SplitFrom(chars, sep, i + 1, "")
    ELSE SplitFrom(chars, sep, i + 1, cur \o chars[i])

\* strings.Split(s, sep) for a one-character separator; s is given as its
\* sequence of characters, the parts are strings
Split(chars, sep) == SplitFrom(chars, sep, 1, "")

RECURSIVE Join(_, _)
\* strings.Join(s, sep)
Join(s, sep) ==
    IF Len(s) = 0 THEN ""
    ELSE IF Len(s) = 1 THEN s[1]
    ELSE s[1] \o sep \o Join(Tail(s), sep)

----------------------------------------------------------------------------
(* Source texts, the parser and the printer *)

NoModule == [Path |-> <<>>, Imports |-> 0, Rules |-> <<>>]

EmptySource == [form |-> "empty", pkg |-> <<>>, imports |-> 0, rules |-> <<>>]

BlankSource == [form |-> "blank", pkg |-> <<>>, imports |-> 0, rules |-> <<>>]

GarbageSource == [form |-> "garbage", pkg |-> <<>>, imports |-> 0, rules |-> <<>>]

\* ast.ParseModule: the set of outcomes [kind, module] of parsing src.
\* A text without statements yields, depending on the parser release, a
\* parse error or a nil module with a nil error.  A package declaration
\* needs an identifier as its first segment; the parser puts the root
\* document in front of the declared path.
ParseModule(src) ==
    CASE src.form \in {"empty", "blank"} ->
            {[kind |-> "error", module |-> NoModule], [kind |-> "nil", module |-> NoModule]}
      [] src.form = "module" /\ Len(src.pkg) >= 1 /\ IsIdent(src.pkg[1]) ->
            {[kind |-> "module",
              module |-> [Path |-> DefaultRootRef \o [i \in 1..Len(src.pkg) |-> StringTerm(src.pkg[i])],
                          Imports |-> src.imports,
                          Rules |-> src.rules]]}
      [] OTHER -> {[kind |-> "error", module |-> NoModule]}

\* Module.String: Package.String drops the root document and prints the
\* remaining path with its first segment as a bare variable
ModuleString(m) ==
    [form |-> "module",
     pkg |-> [i \in 1..(Len(m.Path) - 1) |-> m.Path[i + 1].name],
     imports |-> m.Imports,
     rules |-> m.Rules]

\* packageRef (path given as its sequence of characters)
packageRef(p) ==
    LET pathParts == Split(p, ".")
    IN  DefaultRootRef \o [i \in 1..Len(pathParts) |-> StringTerm(pathParts[i])]

----------------------------------------------------------------------------
(* checkDataAccess *)

validDataFields == {"inventory"}

makeInvalidRootFieldErr(val) ==
    "Invalid data field: " \o TermString(val) \o ". Valid fields are: inventory"

\* checkRef without the type assertion of lines 83-85: a ground second
\* segment that is no string passes
checkRef_NonStringAllowed(r) ==
    IF HasPrefix(r, DefaultRootRef)
    THEN IF Len(r) < 2
         THEN [errs |-> <<"All references to data must access a field of data: " \o RefString(r)>>,
               ret |-> FALSE]
         ELSE IF ~IsGround(r[2])
         THEN [errs |-> <<"Fields of data must be accessed with a literal value (e.g. data.inventory, not data[var]): " \o RefString(r)>>,
               ret |-> FALSE]
         ELSE IF r[2].type = "string" /\ r[2].name \notin validDataFields
         THEN [errs |-> <<makeInvalidRootFieldErr(r[2])>>, ret |-> FALSE]
         ELSE [errs |-> <<>>, ret |-> FALSE]
    ELSE [errs |-> <<>>, ret |-> FALSE]

\* checkRef returning true after recording a violation
checkRef_Prune(r) ==
    IF HasPrefix(r, DefaultRootRef)
    THEN IF Len(r) < 2
         THEN [errs |-> <<"All references to data must access a field of data: " \o RefString(r)>>,
               ret |-> TRUE]
         ELSE IF ~IsGround(r[2])
         THEN [errs |-> <<"Fields of data must be accessed with a literal value (e.g. data.inventory, not data[var]): " \o RefString(r)>>,
               ret |-> TRUE]
         ELSE IF r[2].type # "string" \/ r[2].name \notin validDataFields
         THEN [errs |-> <<makeInvalidRootFieldErr(r[2])>>, ret |-> TRUE]
         ELSE [errs |-> <<>>, ret |-> FALSE]
    ELSE [errs |-> <<>>, ret |-> FALSE]

\* The callback handed to ast.WalkRefs: the errors it appends for r and
\* the boolean it returns
checkRef(r) ==
    IF HasPrefix(r, DefaultRootRef)
    THEN IF Len(r) < 2
         THEN [errs |-> <<"All references to data must access a field of data: " \o RefString(r)>>,
               ret |-> FALSE]
         ELSE IF ~IsGround(r[2])
         THEN [errs |-> <<"Fields of data must be accessed with a literal value (e.g. data.inventory, not data[var]): " \o RefString(r)>>,
               ret |-> FALSE]
         ELSE IF r[2].type # "string"
         THEN [errs |-> <<makeInvalidRootFieldErr(r[2])>>, ret |-> FALSE]
         ELSE IF r[2].name \notin validDataFields
         THEN [errs |-> <<makeInvalidRootFieldErr(r[2])>>, ret |-> FALSE]
         ELSE [errs |-> <<>>, ret |-> FALSE]
    ELSE [errs |-> <<>>, ret |-> FALSE]

\* The references directly under the terms of r, in order
SubRefs(r) ==
    LET RECURSIVE From(_)
        From(i) ==
            IF i > Len(r) THEN <<>>
            ELSE (IF r[i].type = "ref" THEN <<r[i].sub>> ELSE <<>>) \o From(i + 1)
    IN From(1)

\* What ast.Walk goes through below a node the visitor did not stop at
\* (GenericVisitor: a callback returning true prunes the node's subtree)
Children(r, ret) == IF ret THEN <<>> ELSE SubRefs(r)

\* The references of a module in the order ast.Walk reaches them at the
\* top level: the package path, then each rule's references
ModuleRefs(m) ==
    LET RECURSIVE RuleRefs(_)
        RuleRefs(i) ==
            IF i > Len(m.Rules) THEN <<>> ELSE m.Rules[i].refs \o RuleRefs(i + 1)
    IN <<m.Path>> \o RuleRefs(1)

\* Errors.Error
ErrorsError(es) ==
    LET s == [i \in 1..Len(es) |-> ""] \o es
    IN  Join(s, "\n")

----------------------------------------------------------------------------
(* Inputs *)

PathChars == {"a", "."}

BoundedSeq(S, n) == UNION {[1..k -> S] : k \in 0..n}

Paths == BoundedSeq(PathChars, MaxPathLen)

Leaf == {StringTerm("inventory"), StringTerm("foo"), VarTerm("x"), NumberTerm("1")}

FlatRefs ==
    {DefaultRootRef} \cup {DefaultRootRef \o <<l>> : l \in Leaf}
        \cup {<<VarTerm("input"), StringTerm("foo")>>}

InnerRefs ==
    {DefaultRootRef} \cup
    {DefaultRootRef \o <<l>> : l \in {StringTerm("inventory"), StringTerm("foo"), VarTerm("x")}}

Prefixes == {DefaultRootRef, DefaultRootRef \o <<StringTerm("inventory")>>, <<VarTerm("input")>>}

NestedRefs == {p \o <<RefTerm(r)>> : p \in Prefixes, r \in InnerRefs}

RefSet == FlatRefs \cup NestedRefs

PkgDecls == {<<"foo">>, <<"inventory", "lib">>}

EnsureRules ==
    {<<>>} \cup
    {<<[name |-> "violation", key |-> VarTerm("x"), refs |-> rs]>> : rs \in BoundedSeq(RefSet, MaxRefs)}

EnsureSources ==
    {EmptySource, BlankSource, GarbageSource} \cup
    {[form |-> "module", pkg |-> p, imports |-> n, rules |-> rl] :
        p \in PkgDecls, n \in 0..MaxImports, rl \in EnsureRules}

EmptyMap == [n \in {} |-> 0]

NoResult == [status |-> "none", msg |-> "", list |-> <<>>, out |-> EmptySource]

Failure(m) == [status |-> "error", msg |-> m, list |-> <<>>, out |-> EmptySource]

Aggregate(es) == [status |-> "errors", msg |-> "", list |-> es, out |-> EmptySource]

Success(o) == [status |-> "ok", msg |-> "", list |-> <<>>, out |-> o]

Panic == [status |-> "panic", msg |-> "", list |-> <<>>, out |-> EmptySource]

InitEnsure ==
    /\ op = "ensure"
    /\ pc = "start"
    /\ rego \in EnsureSources
    /\ path \in Paths
    /\ reqs = EmptyMap
    /\ module = NoModule
    /\ todo = <<>>
    /\ visited = <<>>
    /\ errs = <<>>
    /\ arities = EmptyMap
    /\ idx = 0
    /\ pending = {}
    /\ inferred = <<>>
    /\ result = NoResult
    /\ parsed = FALSE
    /\ pass = 1
    /\ out1 = EmptySource
    /\ text = ""

----------------------------------------------------------------------------
(* ensureRegoConformance *)

\* HasImports with the import check lost
HasImports_Ignored(m) == FALSE

\* line 22
HasImports(m) == m.Imports # 0

\* UnsetPath leaving the declared package path in place
UnsetPath_Kept(m) == m

\* line 26
UnsetPath(m) == [m EXCEPT !.Path = <<>>]

\* lines 15-17
EnsureEmpty ==
    /\ op = "ensure" /\ pc = "start"
    /\ IF rego.form = "empty"
       THEN /\ result' = Failure("Rego source code is empty")
            /\ pc' = "done"
       ELSE /\ pc' = "parse"
            /\ UNCHANGED result
    /\ UNCHANGED <<op, rego, path, reqs, module, todo, visited, errs, arities, idx,
                   pending, inferred, parsed, pass, out1, text>>

\* lines 18-21; a nil module is dereferenced at line 22
EnsureParse ==
    /\ op = "ensure" /\ pc = "parse"
    /\ parsed' = TRUE
    /\ \E o \in ParseModule(rego) :
          CASE o.kind = "error" ->
                  /\ result' = Failure("parse error")
                  /\ pc' = "done"
                  /\ UNCHANGED module
            [] o.kind = "nil" ->
                  /\ result' = Panic
                  /\ pc' = "done"
                  /\ UNCHANGED module
            [] OTHER ->
                  /\ module' = o.module
                  /\ pc' = "imports"
                  /\ UNCHANGED result
    /\ UNCHANGED <<op, rego, path, reqs, todo, visited, errs, arities, idx,
                   pending, inferred, pass, out1, text>>

\* lines 22-26 and the start of checkDataAccess (lines 65-72)
EnsureImports ==
    /\ op = "ensure" /\ pc = "imports"
    /\ IF HasImports(module)
       THEN /\ result' = Failure("Use of the import keyword is not allowed")
            /\ pc' = "done"
            /\ UNCHANGED <<module, todo, visited, errs>>
       ELSE /\ module' = UnsetPath(module)
            /\ todo' = ModuleRefs(module')
            /\ visited' = <<>>
            /\ errs' = <<>>
            /\ pc' = "walk"
            /\ UNCHANGED result
    /\ UNCHANGED <<op, rego, path, reqs, arities, idx, pending, inferred, parsed, pass,
                   out1, text>>

\* lines 72-94: ast.WalkRefs reaches the next reference and calls the callback
WalkRefs ==
    /\ op = "ensure" /\ pc = "walk"
    /\ todo # <<>>
    /\ LET r == Head(todo)
           c == checkRef(r)
       IN  /\ errs' = errs \o c.errs
           /\ visited' = Append(visited, r)
           /\ todo' = Children(r, c.ret) \o Tail(todo)
    /\ UNCHANGED <<op, pc, rego, path, reqs, module, arities, idx, pending, inferred,
                   result, parsed, pass, out1, text>>

\* lines 96-99 and 27-31
EnsureReturn ==
    /\ op = "ensure" /\ pc = "walk"
    /\ todo = <<>>
    /\ IF Len(errs) > 0
       THEN /\ result' = Aggregate(errs)
            /\ UNCHANGED <<module, out1>>
       ELSE /\ module' = [module EXCEPT !.Path = packageRef(path)]
            /\ result' = Success(ModuleString(module'))
            /\ out1' = IF pass = 1 THEN ModuleString(module') ELSE out1
    /\ pc' = "done"
    /\ UNCHANGED <<op, rego, path, reqs, todo, visited, errs, arities, idx, pending,
                   inferred, parsed, pass, text>>

\* The caller hands a successful output back with the same path
Rerun ==
    /\ op = "ensure" /\ pc = "done"
    /\ result.status = "ok"
    /\ pass = 1
    /\ pass' = 2
    /\ rego' = result.out
    /\ pc' = "start"
    /\ result' = NoResult
    /\ module' = NoModule
    /\ parsed' = FALSE
    /\ visited' = <<>>
    /\ UNCHANGED <<op, path, reqs, todo, errs, arities, idx, pending, inferred, out1, text>>

\* Errors.Error on a returned aggregate (lines 56-62)
RenderErrors ==
    /\ pc = "done"
    /\ result.status = "errors"
    /\ text' = ErrorsError(result.list)
    /\ pc' = "rendered"
    /\ UNCHANGED <<op, rego, path, reqs, module, todo, visited, errs, arities, idx,
                   pending, inferred, result, parsed, pass, out1>>

Next == EnsureEmpty \/ EnsureParse \/ EnsureImports \/ WalkRefs \/ EnsureReturn
            \/ Rerun \/ RenderErrors

Spec == InitEnsure /\ [][Next]_vars

----------------------------------------------------------------------------
(* Properties of ensureRegoConformance *)

RootIdent == VarTerm("data")

StartsWithRoot(r) == Len(r) >= 1 /\ r[1] = RootIdent

AllowedAccess(r) == Len(r) >= 2 /\ r[2].type = "string" /\ r[2].name = "inventory"

RECURSIVE PreOrder(_)
\* every reference of a list of references, nested ones included, each
\* followed by the references nested in it
PreOrder(refs) ==
    IF refs = <<>> THEN <<>>
    ELSE <<Head(refs)>> \o PreOrder(SubRefs(Head(refs))) \o PreOrder(Tail(refs))

Range(f) == {f[i] : i \in DOMAIN f}

SourceRefs(src) ==
    UNION {Range(PreOrder(src.rules[i].refs)) : i \in 1..Len(src.rules)}

Parses(src) == \E o \in ParseModule(src) : o.kind = "module"

RECURSIVE Concat(_)
Concat(strs) == IF strs = <<>> THEN "" ELSE Head(strs) \o Concat(Tail(strs))

RECURSIVE Dotted(_)
\* the strings with a "." between each two
Dotted(strs) ==
    IF strs = <<>> THEN ""
    ELSE IF Len(strs) = 1 THEN strs[1]
    ELSE strs[1] \o "." \o Dotted(Tail(strs))

Dots(chars) == Cardinality({i \in 1..Len(chars) : chars[i] = "."})

\* a reference path is [root] ++ split(p, ".")
IsCanonicalPath(ref, p) ==
    /\ Len(ref) = Dots(p) + 2
    /\ ref[1] = RootIdent
    /\ \A i \in 2..Len(ref) : ref[i].type = "string"
    /\ Dotted([i \in 1..(Len(ref) - 1) |-> ref[i + 1].name]) = Concat(p)

\* C1: a non-empty, syntactically valid source without imports in which
\* every reference starting with the root identifier has the literal second
\* segment "inventory" is accepted, whatever package it declares; the module
\* returned has no imports and the package path [root] ++ split(path, ".").
C1_ConformingSourceAccepted ==
    (/\ op = "ensure" /\ pc = "done"
     /\ rego.form = "module" /\ Parses(rego)
     /\ rego.imports = 0
     /\ \A r \in SourceRefs(rego) : StartsWithRoot(r) => AllowedAccess(r))
    => /\ result.status = "ok"
       /\ module.Imports = 0
       /\ IsCanonicalPath(module.Path, path)
       /\ result.out.form = "module"
       /\ result.out.imports = 0
       /\ result.out.rules = rego.rules
       /\ Dotted(result.out.pkg) = Concat(path)

C1_Witness ==
    /\ op = "ensure" /\ pc = "done" /\ pass = 1
    /\ result.status = "ok"
    /\ rego.pkg = <<"foo">>
    /\ Len(rego.rules) = 1
    /\ rego.rules[1].refs = <<DefaultRootRef \o <<StringTerm("inventory"), RefTerm(DefaultRootRef \o <<StringTerm("inventory")>>)>>>>
    /\ Len(module.Path) = 3

\* the violation the walker is to report for a reference, if any
ExpectedViolation(r) ==
    IF ~StartsWithRoot(r) THEN <<>>
    ELSE IF Len(r) < 2
    THEN <<"All references to data must access a field of data: " \o RefString(r)>>
    ELSE IF ~IsGround(r[2])
    THEN <<"Fields of data must be accessed with a literal value (e.g. data.inventory, not data[var]): "
             \o RefString(r)>>
    ELSE IF ~(r[2].type = "string" /\ r[2].name \in {"inventory"})
    THEN <<"Invalid data field: " \o TermString(r[2]) \o ". Valid fields are: inventory">>
    ELSE <<>>

RECURSIVE ExpectedViolations(_)
ExpectedViolations(refs) ==
    IF refs = <<>> THEN <<>>
    ELSE ExpectedViolation(Head(refs)) \o ExpectedViolations(Tail(refs))

WalkEnded == op = "ensure" /\ pc \in {"done", "rendered"} /\ result.status \in {"ok", "errors"}

BodyRefs == IF Len(module.Rules) = 0 THEN <<>> ELSE module.Rules[1].refs

\* C2: the violation list holds, in visiting order, exactly one entry for
\* each visited reference that starts with the root identifier and is
\* illegal (bare root, non-ground second segment, ground second segment
\* outside {"inventory"}) and nothing else; N independent violating
\* references give N entries, and the call fails with the whole list
\* whenever there is at least one.
C2_ViolationList ==
    /\ op = "ensure" => errs = ExpectedViolations(visited)
    /\ WalkEnded =>
          /\ (Len(errs) >= 1) => (result.status = "errors" /\ result.list = errs)
          /\ (Len(errs) = 0) => result.status = "ok"
          /\ (\A i \in 1..Len(BodyRefs) : SubRefs(BodyRefs[i]) = <<>>) =>
                Len(errs) = Cardinality({i \in 1..Len(BodyRefs) : ExpectedViolation(BodyRefs[i]) # <<>>})

C2_Witness ==
    /\ WalkEnded
    /\ result.status = "errors"
    /\ Len(result.list) = 2
    /\ BodyRefs = <<DefaultRootRef \o <<NumberTerm("1")>>, DefaultRootRef>>

\* C3 (as claimed): the empty string and every whitespace-only source fail
\* with the empty-source error, without being handed to the parser and
\* without any output.
C3_BlankSourceRejectedAsEmpty ==
    (op = "ensure" /\ pc = "done" /\ rego.form \in {"empty", "blank"})
    => /\ result = Failure("Rego source code is empty")
       /\ ~parsed

\* C4: a syntactically valid source with at least one import fails with the
\* single imports error whatever else it contains; the walk has not run, so
\* no root reference is reported.
C4_ImportsRejectedFirst ==
    (/\ op = "ensure" /\ pc \in {"done", "rendered"}
     /\ rego.form = "module" /\ Parses(rego)
     /\ rego.imports >= 1)
    => /\ pc = "done"
       /\ result = Failure("Use of the import keyword is not allowed")
       /\ visited = <<>>
       /\ errs = <<>>

C4_Witness ==
    /\ op = "ensure" /\ pc = "done"
    /\ rego.imports >= 1
    /\ Len(rego.rules) = 1
    /\ rego.rules[1].refs = <<DefaultRootRef \o <<StringTerm("foo")>>>>
    /\ result.status = "error"

RECURSIVE Lines(_)
\* the texts with a single newline between each two
Lines(texts) ==
    IF Len(texts) = 1 THEN texts[1]
    ELSE texts[1] \o "\n" \o Lines(Tail(texts))

\* C7 (as claimed): an aggregate of n >= 1 entries renders as its entries'
\* texts joined by single newlines, without leading or trailing empty lines.
C7_RenderedNewlineJoined ==
    (pc = "rendered" /\ Len(result.list) >= 1) => text = Lines(result.list)

\* C8 (as claimed): a second call on the output of a successful call, with
\* the same path, succeeds and gives the same package path and rule set.
C8_Idempotent ==
    (op = "ensure" /\ pass = 2 /\ pc = "done")
    => /\ result.status = "ok"
       /\ result.out.pkg = out1.pkg
       /\ result.out.rules = out1.rules

RECURSIVE Pruned(_)
\* the references a walk reaches that does not go below a violating one
Pruned(refs) ==
    IF refs = <<>> THEN <<>>
    ELSE <<Head(refs)>>
         \o (IF ExpectedViolation(Head(refs)) # <<>> THEN <<>> ELSE Pruned(SubRefs(Head(refs))))
         \o Pruned(Tail(refs))

\* C9 (as claimed): a reference nested in a violating reference yields no
\* violation entry of its own; all other references are visited.
C9_NoDescentBelowViolation ==
    WalkEnded => errs = ExpectedViolations(Pruned(BodyRefs))

\* C9 (amended): the walker goes below every reference, violating or not: a
\* reference nested in a violating reference is visited right after it and
\* yields its own entry when it is illegal; every reference of the module is
\* visited, in document order.
C9_DescendsBelowViolation ==
    WalkEnded =>
        /\ visited = <<<<>>>> \o PreOrder(BodyRefs)
        /\ errs = ExpectedViolations(PreOrder(BodyRefs))

C9_Witness ==
    /\ WalkEnded
    /\ BodyRefs = <<DefaultRootRef \o <<RefTerm(DefaultRootRef \o <<StringTerm("foo")>>)>>>>
    /\ Len(result.list) = 2

----------------------------------------------------------------------------
(* requireRules *)

\* getRuleArity without the object case of line 155
getRuleArity_VarsOnly(r) ==
    LET t == r.key
    IN  CASE t.type = "nil" -> [arity |-> 0, err |-> ""]
          [] t.type = "var" -> [arity |-> 1, err |-> ""]
          [] t.type = "array" ->
                IF \E i \in 1..Len(t.sub) : t.sub[i].type # "var"
                THEN [arity |-> 0,
                      err |-> "Invalid rule signature: only single variables or arrays of variables or objects allowed: "
                                \o TermString(t)]
                ELSE [arity |-> Len(t.sub), err |-> ""]
          [] OTHER ->
                [arity |-> 0,
                 err |-> "Invalid rule signature, only variables or arrays allowed: " \o TermString(t)]

\* getRuleArity: [arity, err], err = "" for a nil error
getRuleArity(r) ==
    LET t == r.key
    IN  CASE t.type = "nil" -> [arity |-> 0, err |-> ""]
          [] t.type = "var" -> [arity |-> 1, err |-> ""]
          [] t.type = "array" ->
                IF \E i \in 1..Len(t.sub) : t.sub[i].type # "var" /\ t.sub[i].type # "object"
                THEN [arity |-> 0,
                      err |-> "Invalid rule signature: only single variables or arrays of variables or objects allowed: "
                                \o TermString(t)]
                ELSE [arity |-> Len(t.sub), err |-> ""]
          [] OTHER ->
                [arity |-> 0,
                 err |-> "Invalid rule signature, only variables or arrays allowed: " \o TermString(t)]

\* SetArity keeping the first arity recorded for a name
SetArity_KeepFirst(m, name, arity) ==
    [n \in DOMAIN m \cup {name} |-> IF n \in DOMAIN m THEN m[n] ELSE arity]

\* line 119: arities[name] = arity
SetArity(m, name, arity) ==
    [n \in DOMAIN m \cup {name} |-> IF n = name THEN arity ELSE m[n]]

RuleNames == {"violation", "helper"}

KeyElems == {VarTerm("x"), ObjectTerm, StringTerm("s")}

Keys ==
    {NilTerm, VarTerm("x"), StringTerm("s"), NumberTerm("1"), ObjectTerm} \cup
    {ArrayTerm(e) : e \in BoundedSeq(KeyElems, MaxArity)}

\* one head key for each way through getRuleArity: absent, a variable, a
\* string, and arrays: empty, of variables, with an object, with a string
RequireKeys ==
    {NilTerm, VarTerm("x"), StringTerm("s"), ArrayTerm(<<>>),
     ArrayTerm(<<VarTerm("x"), VarTerm("x")>>),
     ArrayTerm(<<VarTerm("x"), ObjectTerm>>),
     ArrayTerm(<<VarTerm("x"), StringTerm("s")>>)}

RequireRules ==
    BoundedSeq({[name |-> n, key |-> k, refs |-> <<>>] : n \in RuleNames, k \in RequireKeys},
               MaxRules)

RequireSources ==
    {EmptySource, BlankSource, GarbageSource} \cup
    {[form |-> "module", pkg |-> <<"foo">>, imports |-> 0, rules |-> rl] : rl \in RequireRules}

ReqMaps == UNION {[D -> 0..MaxWant] : D \in SUBSET RuleNames}

InitRequire ==
    /\ op = "require"
    /\ pc = "start"
    /\ rego \in RequireSources
    /\ path = <<>>
    /\ reqs \in ReqMaps
    /\ module = NoModule
    /\ todo = <<>>
    /\ visited = <<>>
    /\ errs = <<>>
    /\ arities = EmptyMap
    /\ idx = 0
    /\ pending = {}
    /\ inferred = <<>>
    /\ result = NoResult
    /\ parsed = FALSE
    /\ pass = 1
    /\ out1 = EmptySource
    /\ text = ""

\* lines 107-112; a nil module is dereferenced at line 112
RequireParse ==
    /\ op = "require" /\ pc = "start"
    /\ parsed' = TRUE
    /\ \E o \in ParseModule(rego) :
          CASE o.kind = "error" ->
                  /\ result' = Failure("parse error")
                  /\ pc' = "done"
                  /\ UNCHANGED <<module, idx, pending>>
            [] o.kind = "nil" ->
                  /\ result' = Panic
                  /\ pc' = "done"
                  /\ UNCHANGED <<module, idx, pending>>
            [] OTHER ->
                  /\ module' = o.module
                  /\ idx' = 1
                  /\ pending' = DOMAIN reqs
                  /\ pc' = IF Len(o.module.Rules) = 0 THEN "check" ELSE "index"
                  /\ UNCHANGED result
    /\ UNCHANGED <<op, rego, path, reqs, todo, visited, errs, arities, inferred,
                   pass, out1, text>>

\* RequireIndex collecting an inference error and going on instead of
\* returning it
RequireIndex_Aggregating ==
    /\ op = "require" /\ pc = "index"
    /\ idx <= Len(module.Rules)
    /\ LET rule == module.Rules[idx]
           a == getRuleArity(rule)
       IN  /\ inferred' = Append(inferred, a)
           /\ IF a.err # ""
              THEN /\ errs' = Append(errs, a.err)
                   /\ UNCHANGED arities
              ELSE /\ arities' = SetArity(arities, rule.name, a.arity)
                   /\ UNCHANGED errs
           /\ idx' = idx + 1
           /\ pc' = IF idx = Len(module.Rules) THEN "check" ELSE "index"
    /\ UNCHANGED <<op, rego, path, reqs, module, todo, visited, pending, result,
                   parsed, pass, out1, text>>

\* lines 113-120, one iteration
RequireIndex ==
    /\ op = "require" /\ pc = "index"
    /\ idx <= Len(module.Rules)
    /\ LET rule == module.Rules[idx]
           a == getRuleArity(rule)
       IN  /\ inferred' = Append(inferred, a)
           /\ IF a.err # ""
              THEN /\ result' = Failure(a.err)
                   /\ pc' = "done"
                   /\ UNCHANGED <<arities, idx>>
              ELSE /\ arities' = SetArity(arities, rule.name, a.arity)
                   /\ idx' = idx + 1
                   /\ pc' = IF idx = Len(module.Rules) THEN "check" ELSE "index"
                   /\ UNCHANGED result
    /\ UNCHANGED <<op, rego, path, reqs, module, todo, visited, errs, pending,
                   parsed, pass, out1, text>>

\* lines 123-132, one iteration; Go ranges over a map in no fixed order
RequireCheck ==
    /\ op = "require" /\ pc = "check"
    /\ \E name \in pending :
          /\ pending' = pending \ {name}
          /\ IF name \notin DOMAIN arities
             THEN errs' = Append(errs, "Missing required rule: " \o name)
             ELSE IF reqs[name] # arities[name]
             THEN errs' = Append(errs, "Rule " \o name \o " has arity " \o ToString(arities[name])
                                          \o ", want " \o ToString(reqs[name]))
             ELSE UNCHANGED errs
    /\ UNCHANGED <<op, pc, rego, path, reqs, module, todo, visited, arities, idx,
                   inferred, result, parsed, pass, out1, text>>

\* lines 133-137
RequireReturn ==
    /\ op = "require" /\ pc = "check"
    /\ pending = {}
    /\ result' = IF Len(errs) # 0 THEN Aggregate(errs) ELSE Success(EmptySource)
    /\ pc' = "done"
    /\ UNCHANGED <<op, rego, path, reqs, module, todo, visited, errs, arities, idx,
                   pending, inferred, parsed, pass, out1, text>>

NextRequire == RequireParse \/ RequireIndex \/ RequireCheck \/ RequireReturn \/ RenderErrors

SpecRequire == InitRequire /\ [][NextRequire]_vars

----------------------------------------------------------------------------
(* getRuleArity on its own *)

InitArity ==
    /\ op = "arity"
    /\ pc = "start"
    /\ rego = EmptySource
    /\ path = <<>>
    /\ reqs = EmptyMap
    /\ module \in {[Path |-> DefaultRootRef \o <<StringTerm("foo")>>,
                    Imports |-> 0,
                    Rules |-> <<[name |-> "violation", key |-> k, refs |-> <<>>]>>] : k \in Keys}
    /\ todo = <<>>
    /\ visited = <<>>
    /\ errs = <<>>
    /\ arities = EmptyMap
    /\ idx = 1
    /\ pending = {}
    /\ inferred = <<>>
    /\ result = NoResult
    /\ parsed = FALSE
    /\ pass = 1
    /\ out1 = EmptySource
    /\ text = ""

\* lines 142-166: one call of getRuleArity
InferArity ==
    /\ op = "arity" /\ pc = "start"
    /\ inferred' = <<getRuleArity(module.Rules[idx])>>
    /\ pc' = "done"
    /\ UNCHANGED <<op, rego, path, reqs, module, todo, visited, errs, arities, idx,
                   pending, result, parsed, pass, out1, text>>

NextArity == InferArity

SpecArity == InitArity /\ [][NextArity]_vars

----------------------------------------------------------------------------
(* Properties of requireRules and getRuleArity *)

\* the head-key shapes arity inference accepts
GoodKey(k) ==
    \/ k.type \in {"nil", "var"}
    \/ k.type = "array" /\ \A i \in 1..Len(k.sub) : k.sub[i].type \in {"var", "object"}

KeyArity(k) ==
    CASE k.type = "nil" -> 0
      [] k.type = "var" -> 1
      [] OTHER -> Len(k.sub)

InvalidSignature(k) ==
    IF k.type = "array"
    THEN "Invalid rule signature: only single variables or arrays of variables or objects allowed: "
            \o TermString(k)
    ELSE "Invalid rule signature, only variables or arrays allowed: " \o TermString(k)

Declared(n) == \E i \in 1..Len(module.Rules) : module.Rules[i].name = n

LastDeclared(n) ==
    module.Rules[CHOOSE i \in 1..Len(module.Rules) :
                    /\ module.Rules[i].name = n
                    /\ \A j \in (i + 1)..Len(module.Rules) : module.Rules[j].name # n]

Offending == {n \in DOMAIN reqs : ~Declared(n) \/ KeyArity(LastDeclared(n).key) # reqs[n]}

RuleError(n) ==
    IF ~Declared(n) THEN "Missing required rule: " \o n
    ELSE "Rule " \o n \o " has arity " \o ToString(KeyArity(LastDeclared(n).key))
            \o ", want " \o ToString(reqs[n])

RequireEnded == op = "require" /\ pc \in {"done", "rendered"} /\ rego.form = "module"

\* C5: when the module parses and arity inference succeeds for every rule,
\* requireRules succeeds iff every required name is declared with the
\* required arity (the arity of the last rule of that name); otherwise the
\* aggregate has exactly one entry per offending required name, the missing
\* rule entry or the arity mismatch entry (got = recorded, want = required);
\* rules that are not required cause no error.
C5_RequiredRules ==
    (RequireEnded /\ \A i \in 1..Len(module.Rules) : GoodKey(module.Rules[i].key))
    => /\ (result.status = "ok") <=> (Offending = {})
       /\ (Offending # {}) =>
             /\ result.status = "errors"
             /\ Len(result.list) = Cardinality(Offending)
             /\ Range(result.list) = {RuleError(n) : n \in Offending}

C5_Witness ==
    /\ RequireEnded
    /\ Len(module.Rules) = 2
    /\ module.Rules[1].name = "violation" /\ module.Rules[1].key = VarTerm("x")
    /\ module.Rules[2].name = "violation"
    /\ module.Rules[2].key = ArrayTerm(<<VarTerm("x"), ObjectTerm>>)
    /\ DOMAIN reqs = RuleNames
    /\ reqs["violation"] = 1
    /\ result.status = "errors"
    /\ Len(result.list) = 2

\* C6: arity inference gives 0 for an absent head key, 1 for a single
\* variable, the length of an array key iff every element is a variable or
\* an object (0 for the empty array); any other array and any other key fail
\* with the invalid signature error and give no arity.
C6_ArityInference ==
    \A i \in 1..Len(inferred) :
        LET k == module.Rules[i].key
            a == inferred[i]
        IN  /\ k.type = "nil" => a = [arity |-> 0, err |-> ""]
            /\ k.type = "var" => a = [arity |-> 1, err |-> ""]
            /\ k.type = "array" =>
                  /\ (a.err = "") <=> (\A j \in 1..Len(k.sub) : k.sub[j].type \in {"var", "object"})
                  /\ (a.err = "") => a.arity = Len(k.sub)
                  /\ (k.sub = <<>>) => a = [arity |-> 0, err |-> ""]
            /\ k.type \notin {"nil", "var", "array"} => a.err # ""
            /\ (a.err # "") => a.err = InvalidSignature(k)

C6_Witness ==
    /\ op = "arity" /\ pc = "done"
    /\ module.Rules[1].key = ArrayTerm(<<VarTerm("x"), ObjectTerm, VarTerm("x")>>)
    /\ inferred = <<[arity |-> 3, err |-> ""]>>

FirstBad ==
    CHOOSE i \in 1..Len(module.Rules) :
        /\ ~GoodKey(module.Rules[i].key)
        /\ \A j \in 1..(i - 1) : GoodKey(module.Rules[j].key)

\* C10: when arity inference fails for some declared rule, requireRules
\* returns the single invalid signature error of the first such rule and
\* checks nothing else: no missing rule or arity mismatch entry is built and
\* the result is not an aggregate.
C10_InvalidSignatureAborts ==
    (RequireEnded /\ \E i \in 1..Len(module.Rules) : ~GoodKey(module.Rules[i].key))
    => /\ pc = "done"
       /\ result = Failure(InvalidSignature(module.Rules[FirstBad].key))
       /\ errs = <<>>
       /\ pending = DOMAIN reqs

C10_Witness ==
    /\ RequireEnded
    /\ Len(module.Rules) = 2
    /\ module.Rules[1].name = "violation" /\ module.Rules[1].key = ArrayTerm(<<VarTerm("x"), VarTerm("x")>>)
    /\ module.Rules[2].name = "violation" /\ module.Rules[2].key = StringTerm("s")
    /\ DOMAIN reqs = RuleNames
    /\ reqs["violation"] = 1
    /\ result.status = "error"

====
